---- MODULE Spec2Model ----
(***************************************************************************)
(* Model of the two bounded-count pod reconcilers of reruno/my-controller  *)
(* (src/main.go): the 120-target reconciler (lines 30-132), throttled by   *)
(* the checktimeupdate annotation and writing with a merge patch, and the  *)
(* 100-target reconciler (lines 209-245), which increments on every        *)
(* invocation and writes with a full Update whose result it discards.      *)
(*                                                                         *)
(* One watched object lives in the store.  Time is counted in ticks of     *)
(* 1/TicksPerSec second; annotation timestamps are RFC3339 text and keep   *)
(* whole seconds only.  An annotation value is the record                  *)
(* [ok |-> b, val |-> n]: with ok it is the well-formed text of n (the     *)
(* RFC3339 rendering of second n, or the decimal rendering of n), without  *)
(* ok it is text that no parser accepts.                                   *)
(***************************************************************************)
EXTENDS Integers, FiniteSets, Sequences, TLC

VARIABLES variant, store, now, flight, last, runs, edits, incs, paced, pending

vars == <<variant, store, now, flight, last, runs, edits, incs, paced, pending>>

---------------------------------------------------------------------------
(* Bounds of the model *)

MaxInFlight == 2
TicksPerSec == 2
MaxTicks == 2
MaxRuns == 2
MaxEdits == 1

---------------------------------------------------------------------------
(* Program constants *)

Target120 == 120
Target100 == 100

CheckTimeStartAnnotation == "mycontrollercheck/checktimestart"
CheckTimeEndAnnotation == "mycontrollercheck/checktimeend"
CheckTimeUpdateAnnotation == "mycontrollercheck/checktimeupdate"
CheckNumAnnotaion == "mycontrollercheck/checknum"

StartCheckTimeAnnotation == "mycontrollercheck/startchecktime"
EndCheckTimeAnnotation == "mycontrollercheck/endchecktime"
CheckNumAnnotaions == "mycontrollercheck/checknum"

\* An annotation that belongs to somebody else.
OtherAnnotation == "example.com/owner"

\* 1 * time.Second, in ticks.
Second == TicksPerSec

Target(v) == IF v = "r120" THEN Target120 ELSE Target100
StartKey(v) == IF v = "r120" THEN CheckTimeStartAnnotation ELSE StartCheckTimeAnnotation
EndKey(v) == IF v = "r120" THEN CheckTimeEndAnnotation ELSE EndCheckTimeAnnotation
NumKey(v) == IF v = "r120" THEN CheckNumAnnotaion ELSE CheckNumAnnotaions

---------------------------------------------------------------------------
(* Metadata codec: time.Format / time.Parse / strconv.Atoi / fmt.Sprintf *)

Text(n) == [ok |-> TRUE, val |-> n]
Garbage == [ok |-> FALSE, val |-> 0]

\* now.Format(time.RFC3339): the sub-second part of the instant is dropped.
Format(t) == Text(t \div TicksPerSec)

\* time.Parse(time.RFC3339, s)
Parse(s) == IF s.ok THEN [err |-> "nil", t |-> s.val * TicksPerSec]
            ELSE [err |-> "ParseError", t |-> 0]

\* strconv.Atoi(s)
Atoi(s) == IF s.ok THEN [err |-> "nil", n |-> s.val]
           ELSE [err |-> "NumError", n |-> 0]

\* fmt.Sprintf("%d", n)
Sprintf(n) == Text(n)

---------------------------------------------------------------------------
(* Maps *)

EmptyMap == [k \in {} |-> Garbage]

Has(m, k) == k \in DOMAIN m

Put(m, k, x) == [j \in (DOMAIN m) \cup {k} |-> IF j = k THEN x ELSE m[j]]

\* pod.Annotations[k] = x on a map that is not nil (on a nil map the statement
\* panics: see Plan100).
SetAnn(pod, k, x) == [pod EXCEPT !.ann = Put(pod.ann, k, x), !.isNil = FALSE]

---------------------------------------------------------------------------
(* The object store: Get, Patch(MergeFrom), Update *)

\* The object as r.Get decodes it: annotations are omitted from the wire when
\* there are none, and then pod.Annotations is the nil map.
Decode(st) == [rv |-> st.rv, ann |-> st.ann, labels |-> st.labels,
               isNil |-> (DOMAIN st.ann = {})]

NoPod == [rv |-> 0, ann |-> EmptyMap, labels |-> 0, isNil |-> TRUE]

GetOutcomes(st) == IF st.exists THEN {"nil", "Unavailable"} ELSE {"NotFound", "Unavailable"}

\* The error of Get returned as it is.
IgnoreNotFoundNever(err) == err

\* client.IgnoreNotFound(err)
IgnoreNotFound(err) == IF err = "NotFound" THEN "nil" ELSE err

\* A patch that holds every annotation of pod, changed or not.
MergeFromWhole(base, pod) == pod.ann

\* client.MergeFrom(base) applied to pod: the merge patch holds the annotations
\* of pod that base lacks or holds with another value, and no resource version.
MergeFrom(base, pod) ==
    [k \in {j \in DOMAIN pod.ann : ~Has(base.ann, j) \/ base.ann[j] # pod.ann[j]}
        |-> pod.ann[k]]

\* The store applies a merge patch to the object as it is now.
ApplyPatch(st, patch) ==
    [st EXCEPT !.ann = [k \in (DOMAIN st.ann) \cup (DOMAIN patch) |->
                            IF k \in DOMAIN patch THEN patch[k] ELSE st.ann[k]],
               !.rv = st.rv + 1]

\* r.Patch(ctx, &pod, patch): nothing in the patch ties it to the version read.
PatchOutcomes(st) == IF st.exists THEN {"nil", "Conflict", "Unavailable"}
                     ELSE {"NotFound"}

\* The store replaces the object by pod.
ApplyUpdate(st, pod) ==
    [st EXCEPT !.ann = pod.ann, !.labels = pod.labels, !.rv = st.rv + 1]

\* r.Update(ctx, &pod): pod carries the resource version read by Get, and the
\* store rejects it with Conflict when the object has moved on.
UpdateOutcomes(st, pod) ==
    IF ~st.exists THEN {"NotFound"}
    ELSE IF pod.rv # st.rv THEN {"Conflict", "Unavailable"}
    ELSE {"nil", "Unavailable"}

---------------------------------------------------------------------------
(* Reconcile: the part between Get and the write *)

\* (ctrl.Result{}, err): the requested delay is left out.
ResNoDelay(after, err) == [Requeue |-> FALSE, RequeueAfter |-> 0, err |-> err]

\* (ctrl.Result{RequeueAfter: after}, err); no return of the program sets
\* Result.Requeue.
Res(after, err) == [Requeue |-> FALSE, RequeueAfter |-> after, err |-> err]

Return(kind, pod, ret) ==
    [call |-> "none", kind |-> kind, terminal |-> FALSE, inc |-> FALSE,
     pod |-> pod, base |-> pod, ret |-> ret]

\* The decision returned without its write call.
CallDropped(call, kind, terminal, inc, pod, base) ==
    [call |-> "none", kind |-> kind, terminal |-> terminal, inc |-> inc,
     pod |-> pod, base |-> base, ret |-> Res(0, "nil")]

Call(call, kind, terminal, inc, pod, base) ==
    [call |-> call, kind |-> kind, terminal |-> terminal, inc |-> inc,
     pod |-> pod, base |-> base, ret |-> Res(0, "nil")]

\* if pod.Annotations == nil { pod.Annotations = map[string]string{} }
InitAnnotations(pod) == [pod EXCEPT !.isNil = FALSE]

\* The end check made on the start annotation instead of the end annotation.
EndPresentWrongKey(pod, key) ==
    Has(pod.ann, IF key = CheckTimeEndAnnotation THEN CheckTimeStartAnnotation
                 ELSE StartCheckTimeAnnotation)

\* _, ok := pod.Annotations[key]
EndPresent(pod, key) == Has(pod.ann, key)

\* The 120-target Reconcile from the nil check to the Patch call or the return.
Plan120(fetched, t) ==
    LET pod == InitAnnotations(fetched) IN
    IF EndPresent(pod, CheckTimeEndAnnotation)
    THEN Return("noop", pod, Res(0, "nil"))
    ELSE IF ~Has(pod.ann, CheckTimeUpdateAnnotation)
    THEN Call("Patch", "init", FALSE, FALSE,
              SetAnn(SetAnn(SetAnn(pod, CheckTimeUpdateAnnotation, Format(t)),
                            CheckTimeStartAnnotation, Format(t)),
                     CheckNumAnnotaion, Text(0)),
              pod)
    ELSE LET parsed == Parse(pod.ann[CheckTimeUpdateAnnotation]) IN
    IF parsed.err # "nil"
    THEN Return("malformed", pod, Res(0, parsed.err))
    ELSE LET nextUpdateTime == parsed.t + Second
             delta == nextUpdateTime - t IN
    IF delta <= 0
    THEN IF Has(pod.ann, CheckNumAnnotaion)
         THEN LET num == Atoi(pod.ann[CheckNumAnnotaion]) IN
              IF num.err # "nil"
              THEN Return("badnum", pod, Res(0, num.err))
              ELSE IF num.n >= Target120
              THEN Call("Patch", "complete", TRUE, FALSE,
                        SetAnn(pod, CheckTimeEndAnnotation, Format(t)), pod)
              ELSE Call("Patch", "incr", FALSE, TRUE,
                        SetAnn(SetAnn(pod, CheckNumAnnotaion, Sprintf(num.n + 1)),
                               CheckTimeUpdateAnnotation, Format(t)),
                        pod)
         ELSE Return("inconsistent", pod, Res(0, "nil"))
    ELSE Return("throttle", pod, Res(delta, "nil"))

\* The return after r.Patch in the 120-target Reconcile.
AfterPatch(plan, werr) == IF werr # "nil" THEN Res(0, werr) ELSE Res(0, "nil")

\* The tail of the 100-target Reconcile with the end annotation set one
\* increment early.
Finish100Early(pod, checknum, kind, t) ==
    IF checknum + 1 >= Target100
    THEN [call |-> "Update", kind |-> kind, terminal |-> TRUE, inc |-> TRUE,
          pod |-> SetAnn(pod, EndCheckTimeAnnotation, Format(t)), base |-> pod,
          ret |-> Res(0, "nil")]
    ELSE [call |-> "Update", kind |-> kind, terminal |-> FALSE, inc |-> TRUE,
          pod |-> pod, base |-> pod, ret |-> Res(0, "nil")]

\* The tail of the 100-target Reconcile without the branch that sets the end
\* annotation.
Finish100NoEnd(pod, checknum, kind, t) ==
    [call |-> "Update", kind |-> kind, terminal |-> FALSE, inc |-> TRUE,
     pod |-> pod, base |-> pod, ret |-> Res(0, "nil")]

\* The tail of the 100-target Reconcile: if checknum >= 100 { ... } else { ... }
Finish100(pod, checknum, kind, t) ==
    IF checknum >= Target100
    THEN Call("Update", kind, TRUE, TRUE,
              SetAnn(pod, EndCheckTimeAnnotation, Format(t)), pod)
    ELSE Call("Update", kind, FALSE, TRUE, pod, pod)

\* The 100-target Reconcile from the end check to the Update call or the
\* return.  Writing the start annotation into a nil map panics.
Plan100(pod, t) ==
    IF EndPresent(pod, EndCheckTimeAnnotation)
    THEN Return("noop", pod, Res(0, "nil"))
    ELSE IF Has(pod.ann, CheckNumAnnotaions)
    THEN LET num == Atoi(pod.ann[CheckNumAnnotaions]) IN
         IF num.err # "nil"
         THEN Return("badnum", pod, Res(0, num.err))
         ELSE Finish100(SetAnn(pod, CheckNumAnnotaions, Sprintf(num.n + 1)),
                        num.n + 1, "incr", t)
    ELSE IF pod.isNil
    THEN Return("panic", pod, Res(0, "panic"))
    ELSE Finish100(SetAnn(SetAnn(pod, StartCheckTimeAnnotation, Format(t)),
                          CheckNumAnnotaions, Sprintf(1)),
                   1, "init", t)

\* The return after r.Update without the requeue.
AfterUpdateNoRequeue(plan, werr) == Res(0, "nil")

\* The return after r.Update in the 100-target Reconcile: the error of Update
\* is dropped.
AfterUpdate(plan, werr) == IF plan.terminal THEN Res(0, "nil") ELSE Res(Second, "nil")

---------------------------------------------------------------------------
(* State *)

Variants == {"r120", "r100"}

Plan(v, pod, t) == IF v = "r120" THEN Plan120(pod, t) ELSE Plan100(pod, t)

\* Reconciliation State of an object as fetched (spec section 3).
Completed(v, ann) == Has(ann, EndKey(v))
Uninitialized(v, ann) ==
    /\ ~Has(ann, EndKey(v)) /\ ~Has(ann, NumKey(v)) /\ ~Has(ann, StartKey(v))
    /\ (v = "r120" => ~Has(ann, CheckTimeUpdateAnnotation))
Active(v, ann) == ~Completed(v, ann) /\ ~Uninitialized(v, ann)

\* The annotations an object may carry when the controller first sees it:
\* each state annotation absent, well formed or garbage.
Opt(k, S) == {[key |-> k, has |-> FALSE, x |-> Garbage]} \cup
             {[key |-> k, has |-> TRUE, x |-> x] : x \in S}

AnnOf(fields) ==
    [k \in {f.key : f \in {g \in fields : g.has}} |->
        (CHOOSE f \in fields : f.has /\ f.key = k).x]

InitAnns(v) ==
    {EmptyMap} \cup
    {AnnOf({u, n, e,
            [key |-> StartKey(v), has |-> (u.has \/ n.has), x |-> Text(0)],
            [key |-> OtherAnnotation, has |-> TRUE, x |-> Text(0)]}) :
        u \in IF v = "r120"
              THEN Opt(CheckTimeUpdateAnnotation, {Text(0), Text(1), Garbage})
              ELSE Opt(CheckTimeUpdateAnnotation, {}),
        n \in Opt(NumKey(v), {Text(0), Text(Target(v) - 1), Text(Target(v)), Garbage}),
        e \in Opt(EndKey(v), {Text(1)})}

NoPlan == Return("none", NoPod, Res(0, "nil"))

\* What is remembered of an earlier write: whether there was one, when its
\* invocation started and the resource version that invocation had fetched.
NoWrite == [ok |-> FALSE, at |-> 0, rv |-> 0]

\* An invocation in flight (between its Get and its write call): its number,
\* the time of its Get, the object it fetched, what it decided, whether it ran alone so far, and the write of the invocation
\* that had finished last when it started, if that invocation ran alone and
\* wrote to an Active object.
Invocation(id, at, obs, plan, solo, prevSolo) ==
    [id |-> id, at |-> at, obs |-> obs, plan |-> plan, solo |-> solo,
     prevSolo |-> prevSolo]

\* The invocation that finished last: the result of its Get, the annotations
\* it fetched, what it decided and returned, the write it made (write: any
\* applied write; soloWrite: an applied write to an Active object by an
\* invocation that ran alone), and the writes of the invocation before it
\* (prevSolo: finished before this one started; prevWrite: finished before
\* this one returned), and whether the object still had the fetched resource
\* version when the write call was made (fresh).
NoLast == [valid |-> FALSE, gerr |-> "nil", obs |-> EmptyMap, kind |-> "none",
           terminal |-> FALSE, ret |-> Res(0, "nil"), writes |-> 0,
           werr |-> "nil", applied |-> FALSE, fresh |-> TRUE,
           write |-> NoWrite, prevWrite |-> NoWrite,
           soloWrite |-> NoWrite, prevSolo |-> NoWrite]

InitCommon ==
    /\ variant \in Variants
    /\ now = Second
    /\ flight = {}
    /\ last = NoLast
    /\ runs = 0
    /\ edits = 0
    /\ incs = 0
    /\ paced = TRUE
    /\ pending = TRUE

Init ==
    /\ InitCommon
    /\ store \in {[exists |-> TRUE, rv |-> 1, labels |-> 0, ann |-> a] :
                    a \in InitAnns(variant)}

---------------------------------------------------------------------------
(* Reconcile, in two steps: up to the write call, and the write call with   *)
(* the return that follows it.  Another invocation or another writer can    *)
(* act on the store between the two.                                        *)

\* r.Get and everything up to r.Patch / r.Update, or up to the return when the
\* invocation makes no write.
Begin(gerr) ==
    /\ Cardinality(flight) < MaxInFlight
    /\ gerr \in GetOutcomes(store)
    /\ LET pod == IF gerr = "nil" THEN Decode(store) ELSE NoPod
           plan == IF gerr = "nil" THEN Plan(variant, pod, now)
                   ELSE Return("geterr", pod, Res(0, IgnoreNotFound(gerr)))
           others == {[i EXCEPT !.solo = FALSE] : i \in flight}
       IN IF plan.call = "none"
          THEN /\ last' = [NoLast EXCEPT !.valid = TRUE, !.gerr = gerr,
                                         !.obs = pod.ann, !.kind = plan.kind,
                                         !.ret = plan.ret]
               /\ flight' = others
          ELSE /\ flight' = others \cup
                    {Invocation(runs + 1, now, pod, plan, flight = {}, last.soloWrite)}
               /\ UNCHANGED last
    /\ runs' = runs + 1
    /\ UNCHANGED <<variant, store, now, edits, incs>>

\* r.Patch / r.Update of invocation i with outcome werr, and the return.
Finish(i, werr) ==
    /\ i \in flight
    /\ LET plan == i.plan
           ok == werr = "nil"
           solo == ok /\ i.solo /\ Active(variant, i.obs.ann)
           mark == [ok |-> TRUE, at |-> i.at, rv |-> i.obs.rv]
       IN /\ werr \in (IF plan.call = "Patch" THEN PatchOutcomes(store)
                       ELSE UpdateOutcomes(store, plan.pod))
          /\ store' = IF ~ok THEN store
                      ELSE IF plan.call = "Patch"
                      THEN ApplyPatch(store, MergeFrom(plan.base, plan.pod))
                      ELSE ApplyUpdate(store, plan.pod)
          /\ last' = [valid |-> TRUE, gerr |-> "nil", obs |-> i.obs.ann,
                      kind |-> plan.kind, terminal |-> plan.terminal,
                      ret |-> IF plan.call = "Patch" THEN AfterPatch(plan, werr)
                              ELSE AfterUpdate(plan, werr),
                      writes |-> 1, werr |-> werr, applied |-> ok,
                      fresh |-> (store.rv = i.obs.rv),
                      write |-> IF ok THEN mark ELSE NoWrite,
                      prevWrite |-> IF ok THEN last.write ELSE NoWrite,
                      soloWrite |-> IF solo THEN mark ELSE NoWrite,
                      prevSolo |-> IF solo THEN i.prevSolo ELSE NoWrite]
          /\ incs' = IF ok /\ plan.inc THEN incs + 1 ELSE incs
    /\ flight' = flight \ {i}
    /\ UNCHANGED <<variant, now, runs, edits>>

Reconcile120 == variant = "r120" /\ runs < MaxRuns /\ \E gerr \in {"nil", "NotFound", "Unavailable"} : Begin(gerr) /\ UNCHANGED <<paced, pending>>

Patch120 == variant = "r120" /\ \E i \in flight, werr \in {"nil", "NotFound", "Conflict", "Unavailable"} : Finish(i, werr) /\ UNCHANGED <<paced, pending>>

Reconcile100 == variant = "r100" /\ runs < MaxRuns /\ \E gerr \in {"nil", "NotFound", "Unavailable"} : Begin(gerr) /\ UNCHANGED <<paced, pending>>

Update100 == variant = "r100" /\ \E i \in flight, werr \in {"nil", "NotFound", "Conflict", "Unavailable"} : Finish(i, werr) /\ UNCHANGED <<paced, pending>>

---------------------------------------------------------------------------
(* Environment *)

\* The clock advances by one tick.
Tick ==
    /\ now < Second + MaxTicks
    /\ now' = now + 1
    /\ UNCHANGED <<variant, store, flight, last, runs, edits, incs, paced, pending>>

\* Another writer changes an annotation of its own, or the labels.
ExternalEdit ==
    /\ store.exists
    /\ edits < MaxEdits
    /\ edits' = edits + 1
    /\ \/ store' = [store EXCEPT !.ann = Put(store.ann, OtherAnnotation, Text(edits + 1)),
                                 !.rv = store.rv + 1]
       \/ store' = [store EXCEPT !.labels = edits + 1, !.rv = store.rv + 1]
    /\ UNCHANGED <<variant, now, flight, last, runs, incs, paced, pending>>

\* The object is deleted.
Delete ==
    /\ store.exists
    /\ store' = [store EXCEPT !.exists = FALSE]
    /\ UNCHANGED <<variant, now, flight, last, runs, edits, incs, paced, pending>>

Next ==
    \/ Reconcile120
    \/ Patch120
    \/ Reconcile100
    \/ Update100
    \/ Tick
    \/ ExternalEdit
    \/ Delete

Spec == Init /\ [][Next]_vars

---------------------------------------------------------------------------
(* Serial, paced, fault-free runs from an Uninitialized object: one         *)
(* invocation at a time, every Get and every write succeeds, and the clock  *)
(* advances by at least one second between two invocations.                 *)

MaxJitter == 1
SerialSlack == 3

InitSerial ==
    /\ InitCommon
    /\ store \in {[exists |-> TRUE, rv |-> 1, labels |-> 0, ann |-> a] :
                    a \in {EmptyMap, AnnOf({[key |-> OtherAnnotation, has |-> TRUE,
                                             x |-> Text(0)]})}}

SerialReconcile ==
    /\ runs < Target(variant) + SerialSlack
    /\ flight = {}
    /\ paced
    /\ Begin("nil")
    /\ paced' = FALSE
    /\ UNCHANGED pending

SerialWrite == (\E i \in flight : Finish(i, "nil")) /\ UNCHANGED <<paced, pending>>

Pace ==
    /\ flight = {}
    /\ ~paced
    /\ \E d \in Second..(Second + MaxJitter) : now' = now + d
    /\ paced' = TRUE
    /\ UNCHANGED <<variant, store, flight, last, runs, edits, incs, pending>>

NextSerial == SerialReconcile \/ SerialWrite \/ Pace

SpecSerial == InitSerial /\ [][NextSerial]_vars

---------------------------------------------------------------------------
(* The watch queue in front of Reconcile: it delivers the object when it    *)
(* first appears, after every change of the object, after a requested       *)
(* requeue delay and, with backoff, after a returned error; it runs one     *)
(* invocation at a time.  Writes can fail, and an invocation can be         *)
(* abandoned between its Get and its write, after which the restarted       *)
(* process is delivered the object again.                                   *)

QueueSlack == 4

InitQueue == InitSerial

\* What the queue does with what Reconcile returned.
Requeues(ret) == ret.err # "nil" \/ ret.Requeue \/ ret.RequeueAfter > 0

Deliver ==
    /\ pending
    /\ flight = {}
    /\ runs < 2 * Target(variant) + QueueSlack
    /\ \E gerr \in {"nil", "Unavailable"} : Begin(gerr)
    /\ pending' = IF flight' = {} THEN Requeues(last'.ret) ELSE FALSE
    /\ UNCHANGED paced

QueueWrite ==
    /\ \E i \in flight, werr \in {"nil", "Conflict", "Unavailable"} : Finish(i, werr)
    /\ pending' = (last'.applied \/ Requeues(last'.ret))
    /\ UNCHANGED paced

Abandon ==
    /\ flight # {}
    /\ flight' = {}
    /\ pending' = TRUE
    /\ UNCHANGED <<variant, store, now, last, runs, edits, incs, paced>>

\* The clock advances, no further than the next slot of the throttle.
Wait ==
    /\ Has(store.ann, CheckTimeUpdateAnnotation)
    /\ now < Parse(store.ann[CheckTimeUpdateAnnotation]).t + Second
    /\ now' = now + 1
    /\ UNCHANGED <<variant, store, flight, last, runs, edits, incs, paced, pending>>

NextQueue == Deliver \/ QueueWrite \/ Abandon \/ Wait

SpecQueue == InitQueue /\ [][NextQueue]_vars

---------------------------------------------------------------------------
(* Vocabulary of the claims *)

\* The invocation that finished last fetched the object, with annotations Obs.
Fetched == last.valid /\ last.gerr = "nil"
Obs == last.obs

\* Dispositions of spec section 6.
IsDone(ret) == ret.err = "nil" /\ ~ret.Requeue /\ ret.RequeueAfter = 0
IsError(ret) == ret.err # "nil"
IsRequeueAfter(ret, d) == ret.err = "nil" /\ ret.RequeueAfter = d /\ d > 0
IsRequeueNow(ret) ==
    /\ ret.err = "nil"
    /\ ret.Requeue \/ ret.RequeueAfter > 0
    /\ ret.RequeueAfter < Second

\* InconsistentState of spec section 7.
Inconsistent(v, ann) ==
    \/ Has(ann, NumKey(v)) /\ ~ann[NumKey(v)].ok
    \/ Has(ann, CheckTimeUpdateAnnotation) /\ ~Has(ann, NumKey(v))

\* MalformedState of spec section 7.
Malformed(ann) ==
    Has(ann, CheckTimeUpdateAnnotation) /\ ~ann[CheckTimeUpdateAnnotation].ok

---------------------------------------------------------------------------
(* Claims *)

\* C1: an invocation that fetches an object carrying the terminal marker
\* issues no write and returns Done, whatever the time and the other
\* annotations are.
C1_TerminalIsNoOp ==
    /\ \A i \in flight : ~Completed(variant, i.obs.ann)
    /\ (Fetched /\ Completed(variant, Obs)) =>
            /\ last.writes = 0
            /\ IsDone(last.ret)

\* C1 witness: an invocation has finished on a Completed object whose counter
\* is unparsable.
C1_Witness ==
    /\ Fetched
    /\ Completed(variant, Obs)
    /\ Has(Obs, NumKey(variant))
    /\ ~Obs[NumKey(variant)].ok

\* C2: serial paced fault-free invocations from an Uninitialized object reach
\* Completed after exactly target increments: never more than target
\* increments, Completed only with target increments made, and Completed once
\* the invocations needed for them (initialization, target increments,
\* completion) have run.
C2_ExactlyTargetIncrements ==
    /\ incs <= Target(variant)
    /\ Completed(variant, store.ann) => incs = Target(variant)
    /\ (runs >= Target(variant) + 2 /\ flight = {}) => Completed(variant, store.ann)

\* C2 on objects that carry at least one annotation when first seen.
C2_WhenAnnotationsPresent == Has(store.ann, OtherAnnotation) => C2_ExactlyTargetIncrements

\* C2 witness: the object is Completed with target increments made.
C2_Witness == Completed(variant, store.ann) /\ incs = Target(variant)

\* C3: two successive invocations on an Active object whose invocation times
\* differ by less than one second never both write.
C3_ThrottleNoDoubleWrite ==
    (last.soloWrite.ok /\ last.prevSolo.ok) =>
        last.soloWrite.at - last.prevSolo.at >= Second

\* C4: a write rejected with Conflict yields an immediate requeue, never Error.
C4_ConflictRequeuesNow ==
    (last.valid /\ last.werr = "Conflict") => IsRequeueNow(last.ret)

\* C5: writes are conditional on the resource version observed at Get: of two
\* invocations that fetched the same version of the object, at most one has
\* its write applied, and the other is rejected.
C5_InterleavedWriteRejected ==
    (last.write.ok /\ last.prevWrite.ok) => last.write.rv # last.prevWrite.rv

\* C6: a StoreUnavailable failure of Get or of a write is returned as Error.
C6_UnavailableSurfaced ==
    (last.valid /\ (last.gerr = "Unavailable" \/ last.werr = "Unavailable")) =>
        IsError(last.ret)

\* C7: with the terminal marker absent, an unparsable counter, or a last-update
\* timestamp without a counter, yields Error and no write.
C7_InconsistentIsError ==
    /\ \A i \in flight : \/ Completed(variant, i.obs.ann)
                          \/ ~Inconsistent(variant, i.obs.ann)
    /\ (Fetched /\ ~Completed(variant, Obs) /\ Inconsistent(variant, Obs)) =>
            /\ last.writes = 0
            /\ IsError(last.ret)

\* C8: an unparsable last-update timestamp does not make Reconcile return
\* Error.
C8_MalformedRecovered ==
    (Fetched /\ ~Completed(variant, Obs) /\ Malformed(Obs)) => ~IsError(last.ret)

\* C9: when Get reports NotFound, Reconcile returns Done with no error, no
\* requeue and no write.
C9_NotFoundIsDone ==
    (last.valid /\ last.gerr = "NotFound") =>
        /\ last.writes = 0
        /\ IsDone(last.ret)

\* C9 witness: an invocation has finished whose Get reported NotFound.
C9_Witness == last.valid /\ last.gerr = "NotFound" /\ ~store.exists

C11_RestsOnlyWhenCompleted ==
    (flight = {} /\ ~pending) => Completed(variant, store.ann)

\* C11 witness: the queue has come to rest on a Completed object.
C11_Witness == flight = {} /\ ~pending /\ Completed(variant, store.ann)

\* C12: once the end annotation is on the stored object, no step removes it
\* or changes its value while the object exists.
C12_TerminalNeverChanges ==
    [][(store.exists /\ store'.exists /\ Has(store.ann, EndKey(variant)))
         => /\ Has(store'.ann, EndKey(variant))
            /\ store'.ann[EndKey(variant)] = store.ann[EndKey(variant)]]_vars

\* The stored counter, or -1 when the counter annotation is absent or is not
\* a decimal integer.
StoredCounter ==
    IF Has(store.ann, NumKey(variant)) /\ Atoi(store.ann[NumKey(variant)]).err = "nil"
    THEN Atoi(store.ann[NumKey(variant)]).n
    ELSE -1

\* C13: from an Uninitialized object, under failed writes, failed Gets and
\* abandoned invocations, the end annotation is on the stored object only if
\* the stored counter is at least the target.
C13_TerminalImpliesTarget ==
    Has(store.ann, EndKey(variant)) => StoredCounter >= Target(variant)

\* C13 witness: the completing write was applied after an earlier delivery
\* had failed, and the object carries the end annotation.
C13_Witness ==
    /\ Has(store.ann, EndKey(variant))
    /\ last.valid /\ last.terminal /\ last.applied
    /\ runs > Target(variant) + 2

\* C14: an invocation that fetched an object without state annotations, the
\* nil annotation map included, does not fail: it issues the write of the
\* initial state.
C14_FirstReconcileInitializes ==
    (Fetched /\ Uninitialized(variant, Obs))
        => (last.kind = "init" /\ last.writes = 1 /\ last.ret.err # "panic")

\* The stored last-update time plus one second, when the stored object is
\* Active with a well-formed last-update annotation; 0 otherwise.
NextUpdateTime ==
    IF /\ store.exists
       /\ Active("r120", store.ann)
       /\ Has(store.ann, CheckTimeUpdateAnnotation)
       /\ Parse(store.ann[CheckTimeUpdateAnnotation]).err = "nil"
    THEN Parse(store.ann[CheckTimeUpdateAnnotation]).t + Second
    ELSE 0

\* C15: a 120-target invocation whose Get succeeds on an Active object before
\* last-update + 1s plans no write, leaves the store alone and returns
\* RequeueAfter(d) without error, d = (last-update + 1s) - now > 0.
C15_ThrottleRequeuesRemaining ==
    [][(/\ variant = "r120"
        /\ runs' = runs + 1
        /\ now < NextUpdateTime
        /\ (Cardinality(flight') > Cardinality(flight) \/ last'.kind # "geterr"))
       => (/\ Cardinality(flight') = Cardinality(flight)
           /\ last'.kind = "throttle"
           /\ last'.writes = 0
           /\ store' = store
           /\ IsRequeueAfter(last'.ret, NextUpdateTime - now))]_vars

\* C15 witness: the invocation that finished last was throttled on an Active
\* object and asked to be requeued after the remaining time.
C15_Witness ==
    /\ variant = "r120"
    /\ Fetched /\ Active(variant, Obs)
    /\ last.kind = "throttle"
    /\ last.writes = 0
    /\ last.ret.RequeueAfter > 0
    /\ last.ret.RequeueAfter = NextUpdateTime - now

\* C16: an invocation issues one write when it decides to initialize,
\* increment or complete, and none otherwise (terminal marker present,
\* throttled, object not found, failure before the write).
C16_AtMostOneWrite ==
    last.valid =>
        /\ last.writes \in {0, 1}
        /\ last.writes = 1 <=> last.kind \in {"init", "incr", "complete"}
        /\ last.applied => last.writes = 1

\* C16 witness: an invocation that decided to increment issued its one write.
C16_Witness ==
    /\ last.valid
    /\ last.kind = "incr"
    /\ last.writes = 1
    /\ last.applied

\* C17: a write of Reconcile leaves the labels and the annotations of other
\* owners as they were in the store immediately before the write.
C17_WriteKeepsForeignMetadata ==
    [][Cardinality(flight') < Cardinality(flight)
         => /\ store'.labels = store.labels
            /\ Has(store'.ann, OtherAnnotation) = Has(store.ann, OtherAnnotation)
            /\ Has(store.ann, OtherAnnotation)
                 => store'.ann[OtherAnnotation] = store.ann[OtherAnnotation]]_vars

\* C17 witness: the write of the only invocation so far was applied although
\* another writer had changed the object after the Get, and the stored object
\* carries the other writer's change, which the invocation had not seen.
C17_Witness ==
    /\ last.valid /\ last.applied /\ ~last.fresh
    /\ runs = 1
    /\ edits > 0
    /\ \/ store.labels # 0
       \/ /\ Has(store.ann, OtherAnnotation)
          /\ (Has(Obs, OtherAnnotation) => Obs[OtherAnnotation] # store.ann[OtherAnnotation])

\* The least value the counter annotation is written with: "0" by the
\* 120-target Reconcile, "1" by the 100-target Reconcile.
FirstCount(v) == IF v = "r120" THEN 0 ELSE 1

\* C18: from an Uninitialized object, the counter annotation, once stored, is
\* a decimal integer between the first count and the target.
C18_CounterWithinBounds ==
    Has(store.ann, NumKey(variant))
        => /\ Atoi(store.ann[NumKey(variant)]).err = "nil"
           /\ FirstCount(variant) <= StoredCounter
           /\ StoredCounter <= Target(variant)

\* C18 witness: the increment that brought the counter to the target was
\* applied in a run in which some deliveries made no progress.
C18_Witness ==
    /\ StoredCounter = Target(variant)
    /\ last.valid /\ last.kind = "incr" /\ last.applied
    /\ runs > Target(variant) + 2

\* C19: on an object that carries the counter together with the annotations
\* written with it, the stored counter never decreases, and an applied
\* increment write stores the value that was in the store at the moment of
\* the write plus 1.
C19_CounterAdvancesByOne ==
    [][(/\ Has(store.ann, NumKey(variant))
        /\ Has(store'.ann, NumKey(variant))
        /\ Atoi(store.ann[NumKey(variant)]).err = "nil"
        /\ Atoi(store'.ann[NumKey(variant)]).err = "nil"
        /\ variant = "r120" => Has(store.ann, CheckTimeUpdateAnnotation))
       => LET before == Atoi(store.ann[NumKey(variant)]).n
              after == Atoi(store'.ann[NumKey(variant)]).n
          IN /\ after >= before
             /\ (/\ Cardinality(flight') < Cardinality(flight)
                 /\ store' # store
                 /\ last'.kind = "incr") => after = before + 1]_vars

====
